---- MODULE Spec2Model ----
(***************************************************************************)
(* NebulaGraphQAChain (langchain/chains/graph_qa/nebulagraph.py).          *)
(*                                                                         *)
(* The chain holds a graph store reference and two LLM chain bindings.     *)
(* _call reads the question from the request, reads the store's schema,    *)
(* runs the nGQL generation chain, reports the generated text through the  *)
(* run manager, runs the text against the store, reports the context, runs *)
(* the QA chain and returns the answer under the output key.               *)
(*                                                                         *)
(* Two callers share one chain object; each caller's _call has its own     *)
(* frame of locals.  A collaborator call is two steps (the call, then its  *)
(* return or raise), so that the frames interleave while a call is in      *)
(* flight.  The two chains and the store may return any value of their     *)
(* range or raise.  The run manager's on_text hands the text to its         *)
(* handlers and returns; a handler's failure stays inside it.               *)
(***************************************************************************)
EXTENDS Integers, Sequences, FiniteSets, TLC

\* ---------------------------------------------------------------- bounds
MaxSchema == 2
MaxContext == 2

\* ------------------------------------------------------------ conversions
Digit == <<"0", "1", "2", "3", "4", "5", "6", "7", "8", "9">>

RECURSIVE Decimal(_)
Decimal(n) == IF n < 10 THEN Digit[n + 1] ELSE Decimal(n \div 10) \o Digit[(n % 10) + 1]

\* ------------------------------------------------------- value universes
\* A Python value carries its type: str(3) is not 3.
PyStr(s) == [type |-> "str", value |-> s]

PyInt(n) == [type |-> "int", value |-> n]

SameObject(x, y) == x.type = y.type /\ x.value = y.value

\* Lines 83-85: str(context), the text of the context.
str(obj) == IF obj.type = "str" THEN obj ELSE PyStr(Decimal(obj.value))

Callers == {"a", "b"}

Questions == {PyStr("How many people does Alice know?"), PyStr("Who knows Bob?")}

\* Schema descriptions, told apart by a version number.
Schemas == {PyStr("schema v" \o Decimal(n)) : n \in 1..MaxSchema}

Ngqls == {PyStr("MATCH (p:Person {name:'Alice'})-[:KNOWS]->(x) RETURN count(x)"),
          PyStr("MATCH (x)-[:KNOWS]->(p:Person {name:'Bob'}) RETURN x")}

\* Contexts the store returns: opaque to the chain; here counts.
Contexts == {PyInt(n) : n \in 1..MaxContext}

Answers == {PyStr("Alice knows 3 people."), PyStr("Nobody knows Bob.")}

RunManagers == {"run_manager"}

\* Requests: mappings from a set of keys to question texts.
RequestKeys == {{}, {"query"}, {"question"}}

Requests == UNION {[ks -> Questions] : ks \in RequestKeys}

\* Errors the collaborators raise.
GenerationErrors == {"GenerationError"}

GraphQueryErrors == {"GraphQueryError: syntax", "GraphQueryError: timeout"}

HandlerErrors == {"HandlerError"}

\* ------------------------------------------------------------------ state
VARIABLES
    chain,      \* the NebulaGraphQAChain object's fields
    store,      \* the graph store behind chain.graph: its current schema
    sink,       \* the run manager's handlers: "ok" or "failing"
    pc,         \* per caller: where its _call stands
    locals,     \* per caller: the local variables of its _call
    outcome,    \* per caller: what its _call returned or raised
    trace       \* per caller: the calls its _call made, in order

vars == <<chain, store, sink, pc, locals, outcome, trace>>

NoOutcome == [kind |-> "none"]

Returned(v) == [kind |-> "return", value |-> v]

Raised(e) == [kind |-> "raise", error |-> e]

Event(op, ev, val) == [op |-> op, ev |-> ev, val |-> val]

\* ---------------------------------------------------------- construction
from_llm(graph, verbose) ==
    [graph |-> graph,
     ngql_generation_chain |-> [prompt |-> "NGQL_GENERATION_PROMPT", output_key |-> "text"],
     qa_chain |-> [prompt |-> "CYPHER_QA_PROMPT", output_key |-> "text"],
     input_key |-> "query",
     output_key |-> "result",
     verbose |-> verbose]

Init ==
    /\ chain = from_llm("graph", FALSE)
    /\ store \in [schema : Schemas]
    /\ sink = "ok"
    /\ pc = [c \in Callers |-> "idle"]
    /\ locals = [c \in Callers |-> << >>]
    /\ outcome = [c \in Callers |-> NoOutcome]
    /\ trace = [c \in Callers |-> << >>]

\* ------------------------------------------------------- frame bookkeeping
\* Assign local variable name := v in caller c's frame and move to pc next.
Step(c, next, name, v, events) ==
    /\ pc' = [pc EXCEPT ![c] = next]
    /\ locals' = [locals EXCEPT ![c] = (name :> v) @@ @]
    /\ trace' = [trace EXCEPT ![c] = @ \o events]
    /\ UNCHANGED <<chain, store, sink, outcome>>

\* Move on without assigning.
Goto(c, next, events) ==
    /\ pc' = [pc EXCEPT ![c] = next]
    /\ trace' = [trace EXCEPT ![c] = @ \o events]
    /\ UNCHANGED <<chain, store, sink, locals, outcome>>

\* An exception leaves the frame: _call has no try/except.
Raise(c, e, events) ==
    /\ pc' = [pc EXCEPT ![c] = "done"]
    /\ outcome' = [outcome EXCEPT ![c] = Raised(e)]
    /\ trace' = [trace EXCEPT ![c] = @ \o events]
    /\ UNCHANGED <<chain, store, sink, locals>>

\* ------------------------------------------------------------------ _call
\* A faulty variant: inputs.get(key, "") instead of inputs[key].
Subscript_default(inputs, key) ==
    IF key \in DOMAIN inputs THEN Returned(inputs[key]) ELSE Returned(PyStr(""))

\* Line 70: inputs[key]; a missing key raises KeyError.
Subscript(inputs, key) ==
    IF key \in DOMAIN inputs THEN Returned(inputs[key]) ELSE Raised("KeyError")

\* Lines 62-70: a caller enters _call with a request and an optional run
\* manager; the question is read from the request.
Enter(c) ==
    /\ pc[c] \in {"idle", "done"}
    /\ \E inputs \in Requests, run_manager \in RunManagers :
        LET _run_manager == IF run_manager = "None" THEN "noop_manager" ELSE run_manager
            callbacks == <<"child", _run_manager>>
            frame0 == [inputs |-> inputs, _run_manager |-> _run_manager,
                       callbacks |-> callbacks]
            question == Subscript(inputs, chain.input_key)
        IN  /\ trace' = [trace EXCEPT ![c] = << >>]
            /\ IF question.kind = "return"
               THEN /\ locals' = [locals EXCEPT ![c] = ("question" :> question.value) @@ frame0]
                    /\ pc' = [pc EXCEPT ![c] = "get_schema"]
                    /\ outcome' = [outcome EXCEPT ![c] = NoOutcome]
               ELSE /\ locals' = [locals EXCEPT ![c] = frame0]
                    /\ pc' = [pc EXCEPT ![c] = "done"]
                    /\ outcome' = [outcome EXCEPT ![c] = question]
            /\ UNCHANGED <<chain, store, sink>>

\* A faulty variant: a schema captured once instead of read from the store.
get_schema_cached == PyStr("schema v1")

\* Line 73: self.graph.get_schema, read while building the arguments.
get_schema == store.schema

\* A faulty variant: the fetched schema is also stored on the chain object.
GetSchema_stash(c) ==
    /\ pc[c] = "get_schema"
    /\ pc' = [pc EXCEPT ![c] = "ngql_call"]
    /\ locals' = [locals EXCEPT ![c] = ("schema" :> get_schema) @@ @]
    /\ trace' = [trace EXCEPT ![c] = Append(@, Event("get_schema", "ret", get_schema))]
    /\ chain' = ("schema" :> get_schema) @@ chain
    /\ UNCHANGED <<store, sink, outcome>>

GetSchema(c) ==
    /\ pc[c] = "get_schema"
    /\ Step(c, "ngql_call", "schema", get_schema,
            <<Event("get_schema", "ret", get_schema)>>)

\* Lines 72-74: self.ngql_generation_chain.run(...) is called.
NgqlArgs(c) ==
    [chain |-> chain.ngql_generation_chain,
     question |-> locals[c].question, schema |-> locals[c].schema,
     callbacks |-> locals[c].callbacks]

NgqlCall(c) ==
    /\ pc[c] = "ngql_call"
    /\ Goto(c, "ngql_wait", <<Event("ngql_generation_chain.run", "call", NgqlArgs(c))>>)

\* Lines 72-74: the call returns the generated text, or raises.
NgqlReturn(c) ==
    /\ pc[c] = "ngql_wait"
    /\ \/ \E text \in Ngqls :
            Step(c, "on_text_1", "generated_ngql", text,
                 <<Event("ngql_generation_chain.run", "ret", text)>>)
       \/ \E e \in GenerationErrors :
            Raise(c, e, <<Event("ngql_generation_chain.run", "raise", e)>>)

\* The run manager's on_text: the text goes to the handlers; when they fail
\* the failure is kept inside and the call still returns None.
on_text(text) ==
    IF sink = "failing"
    THEN [kind |-> "return", value |-> "None",
          swallowed |-> CHOOSE e \in HandlerErrors : TRUE]
    ELSE [kind |-> "return", value |-> "None", swallowed |-> "none"]

OnTextEvent(c, text) ==
    Event("on_text", "call",
          [text |-> text, verbose |-> chain.verbose, manager |-> locals[c]._run_manager])

\* A faulty variant: _call looks at what became of the emission and gives up when it
\* failed.
OnText_abort(c, at, next, text) ==
    /\ pc[c] = at
    /\ LET r == on_text(text)
       IN  IF r.kind = "raise" \/ r.swallowed # "none"
           THEN Raise(c, r.swallowed, <<OnTextEvent(c, text), Event("on_text", "raise", r.swallowed)>>)
           ELSE Goto(c, next, <<OnTextEvent(c, text), Event("on_text", "ret", r)>>)

\* Lines 76-79 and 82-85: _run_manager.on_text(text, ...); _call goes on when
\* the call returns, and an exception out of it would leave _call.
OnText(c, at, next, text) ==
    /\ pc[c] = at
    /\ LET r == on_text(text)
       IN  IF r.kind = "raise"
           THEN Raise(c, r.error, <<OnTextEvent(c, text), Event("on_text", "raise", r.error)>>)
           ELSE Goto(c, next, <<OnTextEvent(c, text), Event("on_text", "ret", r)>>)

OnTextNgqlLabel(c) == OnText(c, "on_text_1", "on_text_2", PyStr("Generated nGQL:"))

OnTextNgql(c) == OnText(c, "on_text_2", "query_call", locals[c].generated_ngql)

\* A faulty variant: the store is queried twice.
QueryCall_twice(c) ==
    /\ pc[c] = "query_call"
    /\ Goto(c, "query_wait", <<Event("graph.query", "call", locals[c].generated_ngql),
                               Event("graph.query", "call", locals[c].generated_ngql)>>)

\* A faulty variant: the generated text is kept in a slot the callers share.
QueryCall_shared(c) ==
    /\ pc[c] = "query_call"
    /\ \E d \in Callers :
        /\ "generated_ngql" \in DOMAIN locals[d]
        /\ Goto(c, "query_wait", <<Event("graph.query", "call", locals[d].generated_ngql)>>)

\* Line 80: self.graph.query(generated_ngql) is called.
QueryCall(c) ==
    /\ pc[c] = "query_call"
    /\ Goto(c, "query_wait", <<Event("graph.query", "call", locals[c].generated_ngql)>>)

\* A faulty variant: a failed query is swallowed and the chain goes on with a context.
QueryReturn_fallback(c) ==
    /\ pc[c] = "query_wait"
    /\ \/ \E ctx \in Contexts :
            Step(c, "on_text_3", "context", ctx, <<Event("graph.query", "ret", ctx)>>)
       \/ \E e \in GraphQueryErrors :
            Step(c, "on_text_3", "context", PyInt(1), <<Event("graph.query", "raise", e)>>)

\* Line 80: the store returns a context, or raises.
QueryReturn(c) ==
    /\ pc[c] = "query_wait"
    /\ \/ \E ctx \in Contexts :
            Step(c, "on_text_3", "context", ctx, <<Event("graph.query", "ret", ctx)>>)
       \/ \E e \in GraphQueryErrors :
            Raise(c, e, <<Event("graph.query", "raise", e)>>)

OnTextContextLabel(c) == OnText(c, "on_text_3", "on_text_4", PyStr("Full Context:"))

\* A faulty variant: the context itself is reported, not its text.
OnTextContext_raw(c) == OnText(c, "on_text_4", "qa_call", locals[c].context)

OnTextContext(c) == OnText(c, "on_text_4", "qa_call", str(locals[c].context))

\* A faulty variant: the QA chain is given the text of the context.
QaArgs_str(c) ==
    [chain |-> chain.qa_chain,
     question |-> locals[c].question, context |-> str(locals[c].context),
     callbacks |-> locals[c].callbacks]

\* Lines 87-90: self.qa_chain(...) is called.
QaArgs(c) ==
    [chain |-> chain.qa_chain,
     question |-> locals[c].question, context |-> locals[c].context,
     callbacks |-> locals[c].callbacks]

QaCall(c) ==
    /\ pc[c] = "qa_call"
    /\ Goto(c, "qa_wait", <<Event("qa_chain", "call", QaArgs(c))>>)

\* What the QA chain hands back: its inputs and its output under its output key.
QaResult(c, answer) ==
    (chain.qa_chain.output_key :> answer)
        @@ [question |-> locals[c].question, context |-> locals[c].context]

\* A faulty variant: the QA chain's whole mapping is returned.
ReturnValue_whole(result) == result

\* Line 91: the mapping _call returns.
ReturnValue(result) == (chain.output_key :> result[chain.qa_chain.output_key])

\* Lines 87-91: the QA chain returns and _call returns, or the QA chain raises.
QaReturn(c) ==
    /\ pc[c] = "qa_wait"
    /\ \/ \E answer \in Answers :
            LET result == QaResult(c, answer)
            IN  /\ pc' = [pc EXCEPT ![c] = "done"]
                /\ locals' = [locals EXCEPT ![c] = ("result" :> result) @@ @]
                /\ trace' = [trace EXCEPT ![c] = Append(@, Event("qa_chain", "ret", result))]
                /\ outcome' = [outcome EXCEPT ![c] = Returned(ReturnValue(result))]
                /\ UNCHANGED <<chain, store, sink>>
       \/ \E e \in GenerationErrors :
            Raise(c, e, <<Event("qa_chain", "raise", e)>>)

\* ------------------------------------------------------------ environment
\* The graph store's schema changes behind the chain's back.
RefreshSchema ==
    /\ \E s \in Schemas \ {store.schema} : store' = [store EXCEPT !.schema = s]
    /\ UNCHANGED <<chain, sink, pc, locals, outcome, trace>>

\* The handlers behind the run manager start to fail, or recover.
BreakSink ==
    /\ sink = "ok"
    /\ sink' = "failing"
    /\ UNCHANGED <<chain, store, pc, locals, outcome, trace>>

RepairSink ==
    /\ sink = "failing"
    /\ sink' = "ok"
    /\ UNCHANGED <<chain, store, pc, locals, outcome, trace>>

\* Two callers on one chain, their invocations interleaved.
Next ==
    \/ \E c \in Callers :
        \/ Enter(c)
        \/ GetSchema(c)
        \/ NgqlCall(c)
        \/ NgqlReturn(c)
        \/ OnTextNgqlLabel(c)
        \/ OnTextNgql(c)
        \/ QueryCall(c)
        \/ QueryReturn(c)
        \/ OnTextContextLabel(c)
        \/ OnTextContext(c)
        \/ QaCall(c)
        \/ QaReturn(c)
    \/ RefreshSchema

Spec == Init /\ [][Next]_vars

\* One caller, one invocation after another, with handlers that fail and
\* recover at any moment.
NextSink ==
    \/ Enter("a")
    \/ GetSchema("a")
    \/ NgqlCall("a")
    \/ NgqlReturn("a")
    \/ OnTextNgqlLabel("a")
    \/ OnTextNgql("a")
    \/ QueryCall("a")
    \/ QueryReturn("a")
    \/ OnTextContextLabel("a")
    \/ OnTextContext("a")
    \/ QaCall("a")
    \/ QaReturn("a")
    \/ RefreshSchema
    \/ BreakSink
    \/ RepairSink

SpecSink == Init /\ [][NextSink]_vars

\* ================================================================ claims
Shape(t) == [i \in 1..Len(t) |-> <<t[i].op, t[i].ev>>]

CollaboratorCalls(t) == SelectSeq(t, LAMBDA e : e.op # "on_text")

HasRaise(t) == \E i \in DOMAIN t : t[i].ev = "raise"

IsPrefix(s, t) == Len(s) <= Len(t) /\ SubSeq(t, 1, Len(s)) = s

Positions(t, op, ev) == {i \in DOMAIN t : t[i].op = op /\ t[i].ev = ev}

Max(S) == CHOOSE x \in S : \A y \in S : y <= x

\* The last op/ev event of t before position i (0 if none).
LastBefore(t, i, op, ev) ==
    LET S == {j \in Positions(t, op, ev) : j < i} IN IF S = {} THEN 0 ELSE Max(S)

Entered(c) == pc[c] # "idle"

HasQuestion(c) == Entered(c) /\ "query" \in DOMAIN locals[c].inputs

MissingInputError == "KeyError"

PipelineShape ==
    << <<"get_schema", "ret">>,
       <<"ngql_generation_chain.run", "call">>, <<"ngql_generation_chain.run", "ret">>,
       <<"graph.query", "call">>, <<"graph.query", "ret">>,
       <<"qa_chain", "call">>, <<"qa_chain", "ret">> >>

\* C1: in an invocation whose request has the question key and whose
\* collaborators all succeed, the collaborator calls are exactly one schema
\* fetch, one query generation, one store query and one answer generation, in
\* that order, each called only after the previous one has returned; while the
\* invocation runs, what it has called so far is a prefix of that sequence.
C1_StrictlySequential ==
    \A c \in Callers :
        (HasQuestion(c) /\ ~HasRaise(trace[c])) =>
            /\ IsPrefix(Shape(CollaboratorCalls(trace[c])), PipelineShape)
            /\ pc[c] = "done" =>
                /\ Shape(CollaboratorCalls(trace[c])) = PipelineShape
                /\ outcome[c].kind = "return"

C1_Witness ==
    \E c \in Callers : HasQuestion(c) /\ ~HasRaise(trace[c]) /\ pc[c] = "done"

\* C2: a request without the key "query" fails with the missing-input error
\* and no collaborator is called.
C2_MissingInput ==
    \A c \in Callers :
        (Entered(c) /\ "query" \notin DOMAIN locals[c].inputs) =>
            /\ pc[c] = "done"
            /\ outcome[c] = Raised(MissingInputError)
            /\ trace[c] = << >>

C2_Witness ==
    \E c \in Callers :
        /\ Entered(c)
        /\ "query" \notin DOMAIN locals[c].inputs
        /\ DOMAIN locals[c].inputs # {}

CollaboratorOps == {"ngql_generation_chain.run", "graph.query", "qa_chain"}

\* C3: when query generation, the store query or answer generation raises,
\* the invocation raises that same error, nothing is called afterwards and no
\* result is returned; a failed store query means no answer-generation call, a
\* failed query generation means no store query.
C3_ErrorsPropagate ==
    \A c \in Callers : \A i \in DOMAIN trace[c] :
        (trace[c][i].ev = "raise" /\ trace[c][i].op \in CollaboratorOps) =>
            /\ i = Len(trace[c])
            /\ pc[c] = "done"
            /\ outcome[c] = Raised(trace[c][i].val)
            /\ trace[c][i].op = "graph.query" => Positions(trace[c], "qa_chain", "call") = {}
            /\ trace[c][i].op = "ngql_generation_chain.run" =>
                    Positions(trace[c], "graph.query", "call") = {}

C3_Witness ==
    \E c, d \in Callers :
        /\ Positions(trace[c], "graph.query", "raise") # {}
        /\ Positions(trace[d], "qa_chain", "raise") # {}

\* C4: the context given to the answer-generation call is the very value the
\* store query of the same invocation returned just before, not its text, and
\* the question given to it is the question given to query generation.
C4_ContextPassThrough ==
    \A c \in Callers : \A i \in Positions(trace[c], "qa_chain", "call") :
        LET t == trace[c]
            q == LastBefore(t, i, "graph.query", "ret")
            g == LastBefore(t, i, "ngql_generation_chain.run", "call")
        IN  /\ q # 0
            /\ g # 0
            /\ SameObject(t[i].val.context, t[q].val)
            /\ SameObject(t[i].val.question, t[g].val.question)

C4_Witness ==
    \E c \in Callers : \E i \in Positions(trace[c], "qa_chain", "call") :
        \E j \in Positions(trace[c], "on_text", "call") :
            /\ j < i
            /\ SameObject(trace[c][j].val.text, str(trace[c][i].val.context))
            /\ ~SameObject(trace[c][j].val.text, trace[c][i].val.context)

\* C5: the schema an invocation reads is the store's schema at that moment,
\* and it is that value the query-generation call receives.
C5_SchemaRefetched ==
    [][\A c \in Callers :
        /\ (pc[c] = "get_schema" /\ pc'[c] = "ngql_call") =>
                /\ SameObject(locals'[c].schema, store.schema)
                /\ trace'[c] = <<Event("get_schema", "ret", store.schema)>>
        /\ (pc[c] = "ngql_call" /\ pc'[c] = "ngql_wait") =>
                /\ Len(trace[c]) = 1
                /\ SameObject(trace'[c][2].val.schema, trace[c][1].val)]_vars

\* One invocation is over and another runs, and they were given different
\* schemas.
C5_Witness ==
    \E c, d \in Callers :
        /\ pc[c] = "done" /\ Positions(trace[c], "ngql_generation_chain.run", "call") # {}
        /\ pc[d] = "ngql_wait"
        /\ ~SameObject(trace[c][2].val.schema, trace[d][2].val.schema)
        /\ SameObject(trace[d][2].val.schema, store.schema)

\* C6: a successful invocation returns a mapping with the single key "result"
\* holding the answer the answer-generation call of that invocation produced,
\* and the store query is given the text query generation produced.
C6_ResultMapping ==
    \A c \in Callers :
        LET t == trace[c] IN
        /\ outcome[c].kind = "return" =>
            /\ DOMAIN outcome[c].value = {"result"}
            /\ Positions(t, "qa_chain", "ret") # {}
            /\ SameObject(outcome[c].value["result"],
                          t[Max(Positions(t, "qa_chain", "ret"))].val[chain.qa_chain.output_key])
        /\ \A i \in Positions(t, "graph.query", "call") :
            LET g == LastBefore(t, i, "ngql_generation_chain.run", "ret")
            IN  g # 0 /\ SameObject(t[i].val, t[g].val)

C6_Witness ==
    \E c \in Callers :
        /\ outcome[c] = Returned([result |-> PyStr("Alice knows 3 people.")])
        /\ locals[c].question = PyStr("How many people does Alice know?")

FailedEmissions(t) ==
    {i \in Positions(t, "on_text", "ret") : t[i].val.swallowed # "none"}

C8_ConfigurationUnchanged ==
    /\ chain = from_llm("graph", FALSE)
    /\ \A c, d \in Callers :
        (/\ outcome[c].kind = "return"
         /\ outcome[d].kind = "return"
         /\ locals[c].inputs = locals[d].inputs) => Shape(trace[c]) = Shape(trace[d])

C8_Witness ==
    \E c, d \in Callers :
        /\ c # d
        /\ outcome[c].kind = "return"
        /\ outcome[d].kind = "return"
        /\ locals[c].inputs = locals[d].inputs

OnTextCalls(t) == Positions(t, "on_text", "call")

\* C9 as stated: a successful invocation makes exactly two on_text calls, the
\* generated text between query generation and the store query, the text of
\* the context between the store query and answer generation.
C9_TwoEmissions ==
    \A c \in Callers :
        outcome[c].kind = "return" =>
            LET t == trace[c] IN
            /\ Cardinality(OnTextCalls(t)) = 2
            /\ \E i \in OnTextCalls(t) :
                /\ LastBefore(t, i, "ngql_generation_chain.run", "ret") # 0
                /\ LastBefore(t, i, "graph.query", "call") = 0
                /\ SameObject(t[i].val.text, locals[c].generated_ngql)
            /\ \E i \in OnTextCalls(t) :
                /\ LastBefore(t, i, "graph.query", "ret") # 0
                /\ LastBefore(t, i, "qa_chain", "call") = 0
                /\ SameObject(t[i].val.text, str(locals[c].context))

FullShape ==
    << <<"get_schema", "ret">>,
       <<"ngql_generation_chain.run", "call">>, <<"ngql_generation_chain.run", "ret">>,
       <<"on_text", "call">>, <<"on_text", "ret">>, <<"on_text", "call">>, <<"on_text", "ret">>,
       <<"graph.query", "call">>, <<"graph.query", "ret">>,
       <<"on_text", "call">>, <<"on_text", "ret">>, <<"on_text", "call">>, <<"on_text", "ret">>,
       <<"qa_chain", "call">>, <<"qa_chain", "ret">> >>

\* C9 amended: a successful invocation makes exactly four on_text calls, in
\* two pairs: the label "Generated nGQL:" and then the generated text, after
\* query generation returns and before the store query is called; the label
\* "Full Context:" and then the text of the context, after the store query
\* returns and before answer generation is called.
C9_FourEmissions ==
    \A c \in Callers :
        outcome[c].kind = "return" =>
            LET t == trace[c] IN
            /\ Shape(t) = FullShape
            /\ SameObject(t[4].val.text, PyStr("Generated nGQL:"))
            /\ SameObject(t[6].val.text, t[3].val)
            /\ SameObject(t[10].val.text, PyStr("Full Context:"))
            /\ SameObject(t[12].val.text, str(t[9].val))

C9_Witness ==
    \E c \in Callers :
        /\ outcome[c].kind = "return"
        /\ Cardinality(OnTextCalls(trace[c])) = 4
        /\ ~SameObject(trace[c][12].val.text, trace[c][9].val)

\* C10: however two invocations interleave, each works on its own values: the
\* question it gives to both generation calls is the one of its own request,
\* its store query gets the text generated for it, its answer-generation call
\* gets the context its own store query returned, and it returns its own
\* answer.
C10_Independent ==
    \A c \in Callers :
        LET t == trace[c] IN
        /\ \A i \in Positions(t, "ngql_generation_chain.run", "call") :
            SameObject(t[i].val.question, locals[c].inputs["query"])
        /\ \A i \in Positions(t, "graph.query", "call") :
            /\ Positions(t, "ngql_generation_chain.run", "ret") # {}
            /\ \A g \in Positions(t, "ngql_generation_chain.run", "ret") :
                g < i /\ SameObject(t[i].val, t[g].val)
        /\ \A i \in Positions(t, "qa_chain", "call") :
            /\ SameObject(t[i].val.question, locals[c].inputs["query"])
            /\ Positions(t, "graph.query", "ret") # {}
            /\ \A q \in Positions(t, "graph.query", "ret") :
                q < i /\ SameObject(t[i].val.context, t[q].val)
        /\ outcome[c].kind = "return" =>
            \A r \in Positions(t, "qa_chain", "ret") :
                outcome[c].value = [result |-> t[r].val["text"]]

\* Both invocations are in flight at once, and differ in question, generated
\* text and context.
C10_Witness ==
    /\ pc["a"] = "qa_wait"
    /\ pc["b"] = "qa_wait"
    /\ locals["a"].question # locals["b"].question
    /\ locals["a"].generated_ngql # locals["b"].generated_ngql
    /\ locals["a"].context # locals["b"].context

====
